---- MODULE Spec2Model ----
(***************************************************************************)
(* Model of youtube_downloader_gui.py: the YouTubeDownloader workflow      *)
(* (fetch formats -> select -> download) with its worker threads, the      *)
(* Tk "after" queue that marshals callbacks to the UI context, and the     *)
(* format catalog built from the JSON of `yt-dlp -J`.                      *)
(*                                                                         *)
(* Text is modelled as a sequence of characters (one-character strings),   *)
(* so that str.strip() is computed and not assumed.  A dictionary field    *)
(* that may be missing holds Absent; a JSON null holds None.  A numeric    *)
(* field is a sequence: << >> when the key is missing or null (both are    *)
(* falsy where the code reads them), << n >> when it holds n.              *)
(***************************************************************************)
EXTENDS Integers, Sequences, FiniteSets, TLC

\* ------------------------------------------------------------------ bounds
MaxLog == 6        \* messages of the status log the model follows: a worker
                   \* is started only if all it can log still fits
MaxLines == 2      \* lines one download subprocess writes
MaxRaw == 3        \* raw formats in one `formats` array (catalog builder)

\* ------------------------------------------------------------- text helpers
Absent == "<absent>"
None == "<None>"
\* The whitespace characters the modelled texts hold.
Whitespace == {" ", "\n"}

RECURSIVE LStrip(_)
LStrip(s) ==
  IF s = << >> THEN << >>
  ELSE IF Head(s) \in Whitespace THEN LStrip(Tail(s)) ELSE s

RECURSIVE RStrip(_)
RStrip(s) ==
  IF s = << >> THEN << >>
  ELSE IF s[Len(s)] \in Whitespace THEN RStrip(SubSeq(s, 1, Len(s) - 1)) ELSE s

\* Faulty variant: the text is used as typed, not trimmed.
Strip_None(s) == s

\* str.strip(): leading and trailing whitespace removed, the inside kept.
Strip(s) == RStrip(LStrip(s))

\* dict.get(key, default) on a string-valued field.
Get(v, default) == IF v = Absent THEN default ELSE v

\* dict.get(key) / dict.get(key, 0) on a numeric field, as a truth-tested
\* number: a missing key and a null both read as a falsy value, modelled 0.
GetNum(v) == IF v = << >> THEN 0 ELSE v[1]

\* ------------------------------------------------------------ catalog build
BytesPerMB == 1048576

\* f"{filesize / (1024 * 1024):.1f}MB": the quotient in tenths, rounded to
\* nearest with ties to even (the format of an exactly representable float).
SizeTenths(filesize) ==
  LET t == filesize * 10
      q == t \div BytesPerMB
      r == t % BytesPerMB
  IN  IF 2 * r > BytesPerMB \/ (2 * r = BytesPerMB /\ q % 2 = 1) THEN q + 1 ELSE q

\* Faulty variant: only the exact size is read.
PickFilesize_ExactOnly(f) == GetNum(f.filesize)

\* filesize = f.get('filesize') or f.get('filesize_approx', 0)
PickFilesize(f) ==
  IF GetNum(f.filesize) # 0 THEN GetNum(f.filesize) ELSE GetNum(f.filesize_approx)

\* size_str: "Unknown", or whole.tenth "MB".
SizeStr(f) ==
  LET filesize == PickFilesize(f)
  IN  IF filesize # 0
      THEN [known |-> TRUE, whole |-> SizeTenths(filesize) \div 10,
            tenth |-> SizeTenths(filesize) % 10]
      ELSE [known |-> FALSE, whole |-> 0, tenth |-> 0]

\* Faulty variant: the filter lets every raw format through.
Included_All(f) == TRUE

\* if f.get('vcodec') != 'none'
Included(f) == Get(f.vcodec, None) # "none"

\* has_audio: acodec = f.get('acodec', 'none'); acodec != 'none'
HasAudio(f) == Get(f.acodec, "none") # "none"

\* resolution = f.get('resolution', 'audio only')
Resolution(f) == Get(f.resolution, "audio only")

\* The f-string of the description, kept as its parts.
Description(f) ==
  [resolution |-> Resolution(f),
   fps_info   |-> IF GetNum(f.fps) # 0 THEN << GetNum(f.fps) >> ELSE << >>,
   ext        |-> Get(f.ext, None),
   audio_info |-> IF HasAudio(f) THEN "Audio" ELSE "No Audio",
   size_str   |-> SizeStr(f)]

\* The dict appended to video_formats for one included raw format.
FormatEntry(f) ==
  [id          |-> Get(f.format_id, None),
   description |-> Description(f),
   resolution  |-> Resolution(f),
   has_audio   |-> HasAudio(f)]

\* for f in formats: if f.get('vcodec') != 'none': video_formats.append(...)
RECURSIVE VideoFormats(_)
VideoFormats(raw) ==
  IF raw = << >> THEN << >>
  ELSE IF Included(Head(raw))
       THEN << FormatEntry(Head(raw)) >> \o VideoFormats(Tail(raw))
       ELSE VideoFormats(Tail(raw))

\* key = (f['resolution'], f['has_audio'])
Key(e) == << e.resolution, e.has_audio >>

\* Faulty variant: the membership test always passes: nothing is dropped.
Unseen_Always(key, seen) == TRUE

\* if key not in seen
Unseen(key, seen) == key \notin seen

\* The "Remove duplicates" loop: seen/unique_formats carried through the list.
RECURSIVE Dedup(_, _, _)
Dedup(video_formats, seen, unique_formats) ==
  IF video_formats = << >> THEN unique_formats
  ELSE LET f == Head(video_formats)
       IN  IF Unseen(Key(f), seen)
           THEN Dedup(Tail(video_formats), seen \cup {Key(f)}, Append(unique_formats, f))
           ELSE Dedup(Tail(video_formats), seen, unique_formats)

\* unique_formats as _fetch_formats_thread computes it from video_info['formats'].
BuildCatalog(raw) == Dedup(VideoFormats(raw), {}, << >>)

\* ------------------------------------------------------------------- state
VARIABLES
  url_entry,       \* text of the URL entry
  fetch_btn,       \* fetch_btn.enabled
  download_btn,    \* download_btn.enabled
  format_listbox,  \* the descriptions the listbox shows, in order
  curselection,    \* << >> or << i >>: the selected listbox row (1-based)
  title_label,     \* text of the title label
  formats,         \* self.formats
  is_downloading,  \* self.is_downloading
  progress_fill,   \* width of the progress fill
  status_text,     \* the messages log_status has inserted, in order
  after_queue,     \* callbacks posted with root.after(0, ...), oldest first
  dialogs,         \* message boxes now open (modal; the event loop nests)
  threads,         \* the worker threads that have not returned
  process,         \* the subprocess of the latest _download_thread
  request,         \* history: the latest worker start (what it was given, the
                   \* catalog and list as they were when it was asked for,
                   \* and the URL the latest fetch thread was given)
  outcomes,        \* history: the message boxes and final callbacks run for
                   \* the latest worker
  raw_in,          \* catalog builder run on its own: the raw formats
  catalog_out,     \* catalog builder run on its own: the result
  dropped          \* history: the button whose click _on_click dropped last
                   \* ("" when none was; followed under SpecClicks only)

vars ==
  << url_entry, fetch_btn, download_btn, format_listbox, curselection,
     title_label, formats, is_downloading, progress_fill, status_text,
     after_queue, dialogs, threads, process, request, outcomes,
     raw_in, catalog_out, dropped >>

uiVars ==
  << url_entry, fetch_btn, download_btn, format_listbox, curselection,
     title_label, formats, is_downloading, progress_fill, status_text >>

catVars == << raw_in, catalog_out >>

\* ------------------------------------------------------------------ inputs
\* What the user can leave in the URL entry.
UrlInputs == { << " " >>, << "u" >>, << " ", "v" >> }

\* Lines a download subprocess can write (each ends with its newline).
RawLines == { << "a", "\n" >>, << " ", "b", " ", "\n" >>, << " ", "\n" >> }

RawFormat(vcodec, format_id, resolution, acodec, filesize, filesize_approx) ==
  [vcodec |-> vcodec, format_id |-> format_id, ext |-> "mp4",
   resolution |-> resolution, fps |-> << 30 >>, acodec |-> acodec,
   filesize |-> filesize, filesize_approx |-> filesize_approx]

\* The documents `yt-dlp -J` can print and json.loads can parse to a dict
\* (`formats` is << list >>, or << >> when the document has no such key).
VideoInfos ==
  { [title |-> "T1",
     formats |-> << << RawFormat("vp9", "247", "1280x720", "opus", << 52428800 >>, << >>),
                       RawFormat("none", "140", Absent, "mp4a", << >>, << >>),
                       RawFormat("avc1", "18", "640x360", "mp4a", << 0 >>, << 10485760 >>) >> >>],
    [title |-> "T2",
     formats |-> << << RawFormat("avc1", "136", "1280x720", "none", << >>, << >>),
                       RawFormat("vp9", "247", "1280x720", "none", << 104857600 >>, << >>) >> >>],
    [title |-> Absent, formats |-> << >>] }

\* Raw formats for the catalog builder run on its own: every mix of video
\* codec, resolution and audio codec, one more format of another id and a
\* key already present (so entries of one key can differ), and every mix of
\* the two size fields.
CodecFormats ==
  { [vcodec |-> v, format_id |-> "18", ext |-> "mp4", resolution |-> r, fps |-> << >>,
     acodec |-> a, filesize |-> << 104857600 >>, filesize_approx |-> << >>] :
      v \in {"avc1", "none", Absent}, r \in {"1280x720", Absent}, a \in {"mp4a", "none"} }
    \cup
  { RawFormat("vp9", "247", "1280x720", "mp4a", << >>, << >>) }

SizeFormats ==
  { RawFormat("avc1", "22", "640x360", Absent, fs, fa) :
      fs \in { << >>, << 0 >>, << 52428800 >> },
      fa \in { << >>, << 0 >>, << 10485760 >> } }

RawFormats == CodecFormats \cup SizeFormats

RawLists == UNION { [1..n -> RawFormats] : n \in 0..MaxRaw }

\* Why a fetch can fail: the exceptions _fetch_formats_thread can see.
\* nonzero_exit: CalledProcessError (check=True); not_found: FileNotFoundError;
\* invalid_json: json.JSONDecodeError; bad_structure: the JSON is no object, or
\* `formats` holds no objects (AttributeError, TypeError); other: anything else.
FetchFailures == { "nonzero_exit", "not_found", "invalid_json", "bad_structure", "other" }

\* ---------------------------------------------------------------- messages
\* A message is the text given to log_status: its fixed part (fmt; "" for a
\* line of subprocess output) and its variable part.
FetchingMsg == [fmt |-> "Fetching video information...", text |-> << >>]
FoundMsg(n) == [fmt |-> "Found {n} quality options", text |-> << n >>]
StartingFmt == "Starting download: {description}"
StartingMsg(description) == [fmt |-> StartingFmt, text |-> << description >>]
CompletedMsg == [fmt |-> "Download completed successfully!", text |-> << >>]
LineMsg(line) == [fmt |-> "", text |-> line]

download_path == << "~/Downloads" >>

\* ------------------------------------------------------------ UI primitives
MaxWidth == 756

\* update_progress(percentage): the width the fill is given.
ProgressWidth(percentage) == (percentage * MaxWidth) \div 100

\* Faulty variant: the command runs whether or not the button is enabled.
ButtonFires_Always(enabled) == TRUE

\* ModernButton._on_click: the command runs only when the button is enabled.
ButtonFires(enabled) == enabled

\* root.after(0, fn, ...): the callback joins the queue behind those posted.
Post(queue, cb) == Append(queue, cb)

\* A posted callback: the function, its arguments, and the thread that posted it.
Callback(fn, par, tid) == [fn |-> fn, par |-> par, tid |-> tid]

NoProcess ==
  [tid |-> 0, status |-> "none", stdout_open |-> FALSE, pipe |-> << >>,
   emitted |-> << >>, returncode |-> 0, cmd |-> << >>]

\* Faulty variant: the thread is started without the id of the selected entry.
Thread_NoFormatId(tid, kind, url, format_id, pc) ==
  [tid |-> tid, kind |-> kind, url |-> url, format_id |-> None, pc |-> pc]

\* threading.Thread(target=..., args=(...)): a worker thread and its arguments.
Thread(tid, kind, url, format_id, pc) ==
  [tid |-> tid, kind |-> kind, url |-> url, format_id |-> format_id, pc |-> pc]

\* thread.start() for the next thread id.
NewTid == request.tid + 1

NoRequest ==
  [tid |-> 0, kind |-> "none", url |-> << >>, format_id |-> None,
   formats |-> << >>, listbox |-> << >>, fetch_url |-> << >>]

\* The state create_widgets leaves.
InitUI ==
  /\ url_entry = << >>
  /\ fetch_btn = TRUE
  /\ download_btn = FALSE
  /\ format_listbox = << >>
  /\ curselection = << >>
  /\ title_label = << >>
  /\ formats = << >>
  /\ is_downloading = FALSE
  /\ progress_fill = 0
  /\ status_text = << >>
  /\ after_queue = << >>
  /\ dialogs = << >>
  /\ threads = {}
  /\ process = NoProcess
  /\ request = NoRequest
  /\ outcomes = << >>
  /\ dropped = ""

Init ==
  /\ InitUI
  /\ raw_in = << >>
  /\ catalog_out = << >>

\* ------------------------------------------------------------- UI: the user
\* The user edits the URL entry.  Only the two commands read the entry, so
\* the edits followed are those made while a command can run.
TypeUrl ==
  /\ dialogs = << >>
  /\ fetch_btn \/ download_btn
  /\ \E u \in UrlInputs : url_entry' = u
  /\ UNCHANGED << fetch_btn, download_btn, format_listbox, curselection, title_label,
                  formats, is_downloading, progress_fill, status_text, after_queue,
                  dialogs, threads, process, request, outcomes, catVars, dropped >>

\* The user clicks a row of the listbox.  Only start_download reads the
\* selection, so the clicks followed are those made while it can run.
SelectRow ==
  /\ dialogs = << >>
  /\ download_btn
  /\ \E i \in 1..Len(format_listbox) : curselection' = << i >>
  /\ UNCHANGED << url_entry, fetch_btn, download_btn, format_listbox, title_label,
                  formats, is_downloading, progress_fill, status_text, after_queue,
                  dialogs, threads, process, request, outcomes, catVars, dropped >>

\* A worker is started only while the log has room for all it can insert.
HasRoom(n) == Len(status_text) + n <= MaxLog

\* log_status(message)
LogStatus(text, message) == Append(text, message)

\* messagebox.show*(...): the box opens; one a worker thread (tid > 0) asked
\* for is recorded in the history.
ShowBox(fn, text, tid) ==
  /\ dialogs' = Append(dialogs, [fn |-> fn, text |-> text, tid |-> tid])
  /\ outcomes' = IF tid = 0 THEN outcomes
                 ELSE Append(outcomes, [fn |-> fn, text |-> text, tid |-> tid])

\* The user closes the open message box.
Dismiss ==
  /\ dialogs # << >>
  /\ dialogs' = SubSeq(dialogs, 1, Len(dialogs) - 1)
  /\ UNCHANGED << uiVars, after_queue, threads, process, request, outcomes, catVars, dropped >>

\* Faulty variant: the listbox is not emptied.
KeptListbox == format_listbox

\* self.format_listbox.delete(0, tk.END)
ClearedListbox == << >>

\* Faulty variant: the catalog of the fetch before is kept.
KeptFormats == formats

\* self.formats = []
ClearedFormats == << >>

\* fetch_formats(), as the command of fetch_btn.
FetchFormats ==
  /\ dialogs = << >>
  /\ ButtonFires(fetch_btn)
  /\ LET url == Strip(url_entry)
     IN  IF url = << >>
         THEN /\ ShowBox("showerror", << "Please enter a YouTube URL" >>, 0)
              /\ UNCHANGED << uiVars, after_queue, threads, process, request, catVars, dropped >>
         ELSE /\ HasRoom(2)
              /\ fetch_btn' = FALSE
              /\ download_btn' = FALSE
              /\ format_listbox' = ClearedListbox
              /\ curselection' = << >>
              /\ formats' = ClearedFormats
              /\ status_text' = LogStatus(status_text, FetchingMsg)
              /\ progress_fill' = ProgressWidth(0)
              /\ threads' = threads \cup { Thread(NewTid, "fetch", url, None, "run") }
              /\ request' = [tid |-> NewTid, kind |-> "fetch", url |-> url,
                              format_id |-> None,
                              formats |-> formats, listbox |-> format_listbox,
                              fetch_url |-> url]
              /\ outcomes' = << >>
              /\ process' = NoProcess
              /\ UNCHANGED << url_entry, title_label, is_downloading, after_queue,
                              dialogs, catVars, dropped >>

\* start_download(), as the command of download_btn.
StartDownload ==
  /\ dialogs = << >>
  /\ ButtonFires(download_btn)
  /\ IF curselection = << >>
     THEN /\ ShowBox("showwarning", << "Please select a quality option" >>, 0)
          /\ UNCHANGED << uiVars, after_queue, threads, process, request, catVars, dropped >>
     ELSE IF curselection[1] \notin DOMAIN formats
     THEN \* self.formats[selected_idx] raises IndexError: Tk reports it, no more runs
          /\ outcomes' = << [fn |-> "IndexError", text |-> << >>, tid |-> 0] >>
          /\ UNCHANGED << uiVars, after_queue, dialogs, threads, process, request, catVars, dropped >>
     ELSE /\ HasRoom(2 + MaxLines)
          /\ LET selected_format == formats[curselection[1]]
                 url == Strip(url_entry)
             IN  /\ fetch_btn' = FALSE
                 /\ download_btn' = FALSE
                 /\ is_downloading' = TRUE
                 /\ status_text' = LogStatus(status_text, StartingMsg(selected_format.description))
                 /\ progress_fill' = ProgressWidth(0)
                 /\ threads' = threads \cup
                      { Thread(NewTid, "download", url, selected_format.id, "popen") }
                 /\ request' = [tid |-> NewTid, kind |-> "download", url |-> url,
                                 format_id |-> selected_format.id,
                                 formats |-> formats, listbox |-> format_listbox,
                                 fetch_url |-> request.fetch_url]
                 /\ outcomes' = << >>
                 /\ process' = NoProcess
                 /\ UNCHANGED << url_entry, format_listbox, curselection, title_label,
                                 formats, after_queue, dialogs, catVars, dropped >>

\* ------------------------------------------------------ worker: fetch thread
\* Faulty variant: every failure is reported by the catch-all clause.
FetchErrorText_Generic(failure) == << "An error occurred:", failure >>

\* The message box each except clause of _fetch_formats_thread asks for.
\* (the text of the exception, where the box shows it, is the failure's name).
FetchErrorText(failure) ==
  CASE failure = "nonzero_exit" -> << "Failed to fetch video info:", failure >>
    [] failure = "not_found"    -> << "yt-dlp not found. Install it with: pip install yt-dlp" >>
    [] OTHER                    -> << "An error occurred:", failure >>

\* video_info.get('title', 'Unknown') / video_info.get('formats', [])
TitleOf(video_info) == Get(video_info.title, "Unknown")
FormatsOf(video_info) == IF video_info.formats = << >> THEN << >> ELSE video_info.formats[1]

\* What the thread posts when subprocess.run and json.loads succeed.
FetchSuccessCallback(video_info, tid) ==
  Callback("_update_formats_ui",
           [title |-> TitleOf(video_info), formats |-> BuildCatalog(FormatsOf(video_info))],
           tid)

\* Faulty variant: the thread writes the catalog itself instead of posting it.
FetchRun_WritesCatalog ==
  \E t \in threads :
    /\ t.kind = "fetch" /\ t.pc = "run"
    /\ \E video_info \in VideoInfos :
         /\ formats' = BuildCatalog(FormatsOf(video_info))
         /\ after_queue' = Post(after_queue, FetchSuccessCallback(video_info, t.tid))
         /\ threads' = threads \ {t}
    /\ UNCHANGED << url_entry, fetch_btn, download_btn, format_listbox, curselection,
                    title_label, is_downloading, progress_fill, status_text,
                    dialogs, process, request, outcomes, catVars, dropped >>

\* try: subprocess.run ... root.after(0, self._update_formats_ui, ...), or the
\* first root.after of the except clause that catches what was raised.
FetchRun ==
  \E t \in threads :
    /\ t.kind = "fetch" /\ t.pc = "run"
    /\ \/ \E video_info \in VideoInfos :
            /\ after_queue' = Post(after_queue, FetchSuccessCallback(video_info, t.tid))
            /\ threads' = threads \ {t}
       \/ \E failure \in FetchFailures :
            /\ after_queue' = Post(after_queue,
                                   Callback("showerror", FetchErrorText(failure), t.tid))
            /\ threads' = (threads \ {t}) \cup { [t EXCEPT !.pc = "reset"] }
    /\ UNCHANGED << uiVars, dialogs, process, request, outcomes, catVars, dropped >>

\* The second root.after of an except clause: self._reset_ui.
FetchPostReset ==
  \E t \in threads :
    /\ t.kind = "fetch" /\ t.pc = "reset"
    /\ after_queue' = Post(after_queue, Callback("_reset_ui", << >>, t.tid))
    /\ threads' = threads \ {t}
    /\ UNCHANGED << uiVars, dialogs, process, request, outcomes, catVars, dropped >>

\* --------------------------------------------------- worker: download thread
\* Faulty variant: the selector is the bare format id.
DownloadCmd_BareId(url, format_id) ==
  << << "yt-dlp" >>, << "-f" >>, << format_id >>,
     << "-P" >>, download_path, << "--newline" >>, url >>

\* cmd of _download_thread, one sequence per argument.
DownloadCmd(url, format_id) ==
  << << "yt-dlp" >>, << "-f" >>, << format_id, "+bestaudio/best" >>,
     << "-P" >>, download_path, << "--newline" >>, url >>

SetPc(t, pc) == (threads \ {t}) \cup { [t EXCEPT !.pc = pc] }

\* subprocess.Popen(cmd, ...): the process starts, or Popen raises.
DownloadPopen ==
  \E t \in threads :
    /\ t.kind = "download" /\ t.pc = "popen"
    /\ \/ /\ process' = [tid |-> t.tid, status |-> "running", stdout_open |-> TRUE,
                         pipe |-> << >>, emitted |-> << >>, returncode |-> 0,
                         cmd |-> DownloadCmd(t.url, t.format_id)]
          /\ threads' = SetPc(t, "read")
       \/ /\ threads' = SetPc(t, "except")
          /\ UNCHANGED process
    /\ UNCHANGED << uiVars, after_queue, dialogs, request, outcomes, catVars, dropped >>

\* Faulty variant: the line is forwarded without the test for a blank one.
ForwardLine_Always(queue, line, tid) ==
  Post(queue, Callback("log_status", LineMsg(Strip(line)), tid))

\* line = line.strip(); if line: root.after(0, self.log_status, line)
ForwardLine(queue, line, tid) ==
  IF Strip(line) # << >>
  THEN Post(queue, Callback("log_status", LineMsg(Strip(line)), tid))
  ELSE queue

\* One turn of `for line in process.stdout`: the next line is read.
DownloadReadLine ==
  \E t \in threads :
    /\ t.kind = "download" /\ t.pc = "read"
    /\ process.tid = t.tid
    /\ process.pipe # << >>
    /\ after_queue' = ForwardLine(after_queue, Head(process.pipe), t.tid)
    /\ process' = [process EXCEPT !.pipe = Tail(process.pipe)]
    /\ UNCHANGED << uiVars, dialogs, threads, request, outcomes, catVars, dropped >>

\* The loop ends: nothing is left to read and the process closed its output.
DownloadReadEof ==
  \E t \in threads :
    /\ t.kind = "download" /\ t.pc = "read"
    /\ process.tid = t.tid
    /\ process.pipe = << >> /\ ~process.stdout_open
    /\ threads' = SetPc(t, "wait")
    /\ UNCHANGED << uiVars, after_queue, dialogs, process, request, outcomes, catVars, dropped >>

\* Reading raises (the output cannot be decoded, the pipe fails).
DownloadReadRaises ==
  \E t \in threads :
    /\ t.kind = "download" /\ t.pc = "read"
    /\ threads' = SetPc(t, "except")
    /\ UNCHANGED << uiVars, after_queue, dialogs, process, request, outcomes, catVars, dropped >>

\* process.wait() returns once the process has exited; then the branch on
\* process.returncode posts its message box.
DownloadWait ==
  \E t \in threads :
    /\ t.kind = "download" /\ t.pc = "wait"
    /\ process.tid = t.tid
    /\ process.status = "exited"
    /\ IF process.returncode = 0
       THEN /\ after_queue' = Post(after_queue,
                                   Callback("showinfo", << "Download completed!" >>, t.tid))
            /\ threads' = SetPc(t, "log_completed")
       ELSE /\ after_queue' = Post(after_queue,
                                   Callback("showerror", << "Download failed. Check the status log." >>, t.tid))
            /\ threads' = SetPc(t, "finally")
    /\ UNCHANGED << uiVars, dialogs, process, request, outcomes, catVars, dropped >>

\* root.after(0, self.log_status, "Download completed successfully!")
DownloadLogCompleted ==
  \E t \in threads :
    /\ t.kind = "download" /\ t.pc = "log_completed"
    /\ after_queue' = Post(after_queue, Callback("log_status", CompletedMsg, t.tid))
    /\ threads' = SetPc(t, "finally")
    /\ UNCHANGED << uiVars, dialogs, process, request, outcomes, catVars, dropped >>

\* Faulty variant: the except clause swallows the exception without a report.
DownloadExcept_NoReport ==
  \E t \in threads :
    /\ t.kind = "download" /\ t.pc = "except"
    /\ threads' = SetPc(t, "finally")
    /\ UNCHANGED << uiVars, after_queue, dialogs, process, request, outcomes, catVars, dropped >>

\* except Exception as e: root.after(0, lambda: messagebox.showerror(...))
DownloadExcept ==
  \E t \in threads :
    /\ t.kind = "download" /\ t.pc = "except"
    /\ after_queue' = Post(after_queue, Callback("showerror", << "Download error:" >>, t.tid))
    /\ threads' = SetPc(t, "finally")
    /\ UNCHANGED << uiVars, dialogs, process, request, outcomes, catVars, dropped >>

\* finally: root.after(0, self._download_complete); the thread returns.
DownloadFinally ==
  \E t \in threads :
    /\ t.kind = "download" /\ t.pc = "finally"
    /\ after_queue' = Post(after_queue, Callback("_download_complete", << >>, t.tid))
    /\ threads' = threads \ {t}
    /\ UNCHANGED << uiVars, dialogs, process, request, outcomes, catVars, dropped >>

\* ------------------------------------------------- the download subprocess
\* The process writes one more line to its output.
ProcEmit ==
  /\ process.status = "running" /\ process.stdout_open
  /\ Len(process.emitted) < MaxLines
  /\ \E line \in RawLines :
       process' = [process EXCEPT !.pipe = Append(@, line), !.emitted = Append(@, line)]
  /\ UNCHANGED << uiVars, after_queue, dialogs, threads, request, outcomes, catVars, dropped >>

\* The process closes its output before it exits.
ProcClose ==
  /\ process.status = "running" /\ process.stdout_open
  /\ process' = [process EXCEPT !.stdout_open = FALSE]
  /\ UNCHANGED << uiVars, after_queue, dialogs, threads, request, outcomes, catVars, dropped >>

\* The process exits with a return code.
ProcExit ==
  /\ process.status = "running"
  /\ \E rc \in {0, 1} :
       process' = [process EXCEPT !.status = "exited", !.stdout_open = FALSE,
                                  !.returncode = rc]
  /\ UNCHANGED << uiVars, after_queue, dialogs, threads, request, outcomes, catVars, dropped >>

\* ------------------------------------------------- UI: the posted callbacks
Runs(fn) == after_queue # << >> /\ Head(after_queue).fn = fn

\* The final callback of a worker, recorded in the history.
Ran(fn, tid) == Append(outcomes, [fn |-> fn, text |-> << >>, tid |-> tid])

\* log_status(line) / log_status("Download completed successfully!")
RunLogStatus ==
  /\ Runs("log_status")
  /\ status_text' = LogStatus(status_text, Head(after_queue).par)
  /\ after_queue' = Tail(after_queue)
  /\ UNCHANGED << url_entry, fetch_btn, download_btn, format_listbox, curselection,
                  title_label, formats, is_downloading, progress_fill,
                  dialogs, threads, process, request, outcomes, catVars, dropped >>

\* lambda: messagebox.showerror(...) / messagebox.showinfo(...)
RunMessageBox ==
  /\ after_queue # << >>
  /\ Head(after_queue).fn \in {"showerror", "showinfo"}
  /\ ShowBox(Head(after_queue).fn, Head(after_queue).par, Head(after_queue).tid)
  /\ after_queue' = Tail(after_queue)
  /\ UNCHANGED << uiVars, threads, process, request, catVars, dropped >>

\* for f in formats: self.format_listbox.insert(tk.END, f['description'])
RECURSIVE InsertAll(_, _)
InsertAll(listbox, fs) ==
  IF fs = << >> THEN listbox
  ELSE InsertAll(Append(listbox, Head(fs).description), Tail(fs))

\* _update_formats_ui(title, formats)
RunUpdateFormatsUi ==
  /\ Runs("_update_formats_ui")
  /\ LET cb == Head(after_queue)
     IN  /\ title_label' = << cb.par.title >>
         /\ formats' = cb.par.formats
         /\ format_listbox' = InsertAll(format_listbox, cb.par.formats)
         /\ fetch_btn' = TRUE
         /\ download_btn' = TRUE
         /\ status_text' = LogStatus(status_text, FoundMsg(Len(cb.par.formats)))
         /\ outcomes' = Ran("_update_formats_ui", cb.tid)
  /\ after_queue' = Tail(after_queue)
  /\ UNCHANGED << url_entry, curselection, is_downloading, progress_fill,
                  dialogs, threads, process, request, catVars, dropped >>

\* Faulty variant: the fetch button is left disabled.
RunResetUi_NoEnable ==
  /\ Runs("_reset_ui")
  /\ progress_fill' = 0
  /\ outcomes' = Ran("_reset_ui", Head(after_queue).tid)
  /\ after_queue' = Tail(after_queue)
  /\ UNCHANGED << url_entry, fetch_btn, download_btn, format_listbox, curselection,
                  title_label, formats, is_downloading, status_text,
                  dialogs, threads, process, request, catVars, dropped >>

\* _reset_ui()
RunResetUi ==
  /\ Runs("_reset_ui")
  /\ progress_fill' = 0
  /\ fetch_btn' = TRUE
  /\ outcomes' = Ran("_reset_ui", Head(after_queue).tid)
  /\ after_queue' = Tail(after_queue)
  /\ UNCHANGED << url_entry, download_btn, format_listbox, curselection, title_label,
                  formats, is_downloading, status_text,
                  dialogs, threads, process, request, catVars, dropped >>

\* Faulty variant: the download button is left disabled.
RunDownloadComplete_NoDownloadBtn ==
  /\ Runs("_download_complete")
  /\ progress_fill' = 0
  /\ fetch_btn' = TRUE
  /\ is_downloading' = FALSE
  /\ outcomes' = Ran("_download_complete", Head(after_queue).tid)
  /\ after_queue' = Tail(after_queue)
  /\ UNCHANGED << url_entry, download_btn, format_listbox, curselection, title_label,
                  formats, status_text, dialogs, threads, process, request, catVars, dropped >>

\* _download_complete()
RunDownloadComplete ==
  /\ Runs("_download_complete")
  /\ progress_fill' = 0
  /\ fetch_btn' = TRUE
  /\ download_btn' = TRUE
  /\ is_downloading' = FALSE
  /\ outcomes' = Ran("_download_complete", Head(after_queue).tid)
  /\ after_queue' = Tail(after_queue)
  /\ UNCHANGED << url_entry, format_listbox, curselection, title_label, formats,
                  status_text, dialogs, threads, process, request, catVars, dropped >>

\* --------------------------------------------- the catalog builder on its own
InitCatalog ==
  /\ InitUI
  /\ raw_in \in RawLists
  /\ catalog_out = << >>

\* unique_formats is computed from the raw formats (kept as << unique_formats >>).
CatalogBuild ==
  /\ catalog_out = << >>
  /\ catalog_out' = << BuildCatalog(raw_in) >>
  /\ UNCHANGED << uiVars, after_queue, dialogs, threads, process, request, outcomes, raw_in, dropped >>

SpecCatalog == InitCatalog /\ [][CatalogBuild]_vars

\* ------------------------------------------------------------ specification
Next ==
  \/ TypeUrl
  \/ SelectRow
  \/ Dismiss
  \/ FetchFormats
  \/ StartDownload
  \/ FetchRun
  \/ FetchPostReset
  \/ DownloadPopen
  \/ DownloadReadLine
  \/ DownloadReadEof
  \/ DownloadReadRaises
  \/ DownloadWait
  \/ DownloadLogCompleted
  \/ DownloadExcept
  \/ DownloadFinally
  \/ ProcEmit
  \/ ProcClose
  \/ ProcExit
  \/ RunLogStatus
  \/ RunMessageBox
  \/ RunUpdateFormatsUi
  \/ RunResetUi
  \/ RunDownloadComplete

Spec == Init /\ [][Next]_vars

\* ModernButton._on_click on a button that is not enabled: the command is
\* not run.  The click leaves the program as it is; only the history of
\* dropped clicks tells that it happened.
ClickDisabled ==
  /\ dialogs = << >>
  /\ \E b \in {"fetch_btn", "download_btn"} :
       /\ ~ButtonFires(IF b = "fetch_btn" THEN fetch_btn ELSE download_btn)
       /\ dropped' = b
  /\ UNCHANGED << uiVars, after_queue, dialogs, threads, process, request, outcomes,
                  catVars >>

\* The program with the clicks on disabled buttons followed as well.
NextClicks ==
  \/ Next
  \/ ClickDisabled

SpecClicks == Init /\ [][NextClicks]_vars

\* The steps of a worker thread that the scheduler, not a fault, decides.
ThreadStep ==
  \/ FetchPostReset
  \/ DownloadReadLine
  \/ DownloadReadEof
  \/ DownloadWait
  \/ DownloadLogCompleted
  \/ DownloadExcept
  \/ DownloadFinally

\* The Tk event loop takes the callback at the head of the queue.
UiCallback ==
  \/ RunLogStatus
  \/ RunMessageBox
  \/ RunUpdateFormatsUi
  \/ RunResetUi
  \/ RunDownloadComplete

\* The scheduling the liveness claims assume: a worker thread keeps running,
\* the Tk event loop keeps serving the posted callbacks (also while a message
\* box is open), and the download subprocess ends.
Fairness ==
  /\ WF_vars(ThreadStep)
  /\ WF_vars(UiCallback)
  /\ WF_vars(ProcExit)

FairSpec == Spec /\ Fairness

\* ==================================================================== claims

\* ---- C2 ----
\* The catalog the fetch worker builds holds no two entries of equal
\* (resolution, has_audio); each entry is the entry of the first included raw
\* format of its key, every included key is kept, and the kept entries stand
\* in the order of those first raw formats.
FirstOfKey(raw, k) ==
  /\ Included(raw[k])
  /\ \A j \in 1..(k - 1) : Included(raw[j]) => Key(FormatEntry(raw[j])) # Key(FormatEntry(raw[k]))

FirstIndices(raw) == { k \in DOMAIN raw : FirstOfKey(raw, k) }

C2_DedupFirstInOrder ==
  catalog_out # << >> =>
    LET c == catalog_out[1]
        firsts == FirstIndices(raw_in)
    IN  /\ \A i, j \in DOMAIN c : i # j => Key(c[i]) # Key(c[j])
        /\ Len(c) = Cardinality(firsts)
        /\ \A i \in DOMAIN c :
             \E k \in firsts :
               /\ c[i] = FormatEntry(raw_in[k])
               /\ Cardinality({ m \in firsts : m < k }) = i - 1

\* A catalog was built from raw formats of which two included ones share a
\* key and differ, and one excluded format stands among them.
C2_Witness ==
  /\ catalog_out # << >>
  /\ \E i, j \in DOMAIN raw_in :
       /\ i < j
       /\ Included(raw_in[i]) /\ Included(raw_in[j])
       /\ Key(FormatEntry(raw_in[i])) = Key(FormatEntry(raw_in[j]))
       /\ FormatEntry(raw_in[i]) # FormatEntry(raw_in[j])
  /\ \E k \in DOMAIN raw_in : ~Included(raw_in[k])
  /\ Len(catalog_out[1]) = 1

\* ------------------------------------------------- vocabulary of the claims
FinalFns == {"_update_formats_ui", "_reset_ui", "_download_complete"}

Indices(queue, fns) == { i \in DOMAIN queue : queue[i].fn \in fns }

\* Workers in flight: the threads that have not returned, and those whose
\* final UI callback is posted and has not run.
WorkersInFlight == Cardinality(threads) + Cardinality(Indices(after_queue, FinalFns))

LastRan(fn) == outcomes # << >> /\ outcomes[Len(outcomes)].fn = fn

Shown(fn) == { i \in DOMAIN outcomes : outcomes[i].fn = fn }

\* The latest worker was a fetch that failed, and the failure was reported.
FetchFailedReported == request.kind = "fetch" /\ LastRan("_reset_ui")

\* The latest worker was a download and its completion callback has run.
DownloadCompleted == request.kind = "download" /\ LastRan("_download_complete")

IsLine(m) == m.fmt = ""
IsStarting(m) == m.fmt = StartingFmt

\* The lines of subprocess output in the log since the latest download began.
Delivered ==
  LET starts == { i \in DOMAIN status_text : IsStarting(status_text[i]) }
      from == IF starts = {} THEN 0 ELSE CHOOSE i \in starts : \A j \in starts : j <= i
      ms == SelectSeq(SubSeq(status_text, from + 1, Len(status_text)), IsLine)
  IN  [i \in DOMAIN ms |-> ms[i].text]

IsLineCallback(cb) == cb.fn = "log_status" /\ IsLine(cb.par)

\* The lines posted to the UI context that have not yet run.
QueuedLines ==
  LET cbs == SelectSeq(after_queue, IsLineCallback)
  IN  [i \in DOMAIN cbs |-> cbs[i].par.text]

\* The lines of `lines` that are not blank once trimmed, each trimmed.
RECURSIVE NonBlankTrimmed(_)
NonBlankTrimmed(lines) ==
  IF lines = << >> THEN << >>
  ELSE IF Strip(Head(lines)) = << >> THEN NonBlankTrimmed(Tail(lines))
       ELSE << Strip(Head(lines)) >> \o NonBlankTrimmed(Tail(lines))

\* The lines the download thread has taken from the subprocess so far.
LinesRead == SubSeq(process.emitted, 1, Len(process.emitted) - Len(process.pipe))

ReadingRaised == \E i \in Shown("showerror") : outcomes[i].text = << "Download error:" >>

\* ---- C1 ----
\* At most one worker (fetch or download) is in flight, and while one is,
\* both trigger buttons are disabled up to the run of its final UI callback.
C1_SingleFlight ==
  /\ WorkersInFlight <= 1
  /\ WorkersInFlight = 1 => (~fetch_btn /\ ~download_btn)

\* A download thread has returned and its completion callback is still
\* queued, with both buttons disabled.
C1_Witness ==
  /\ threads = {}
  /\ Indices(after_queue, {"_download_complete"}) # {}
  /\ ~fetch_btn /\ ~download_btn

\* ---- C3 ----
\* As claimed: once a download has completed, the lines delivered to the log
\* are exactly the non-blank trimmed lines the subprocess emitted, in order.
C3_AllEmittedDelivered ==
  DownloadCompleted => Delivered = NonBlankTrimmed(process.emitted)

\* As amended: the lines delivered and those still queued are, in order, the
\* non-blank trimmed lines the thread has read from the subprocess; a
\* completed download whose reading did not raise has delivered every line
\* the subprocess emitted.
C3_LinesReadDelivered ==
  request.kind = "download" =>
    /\ Delivered \o QueuedLines = NonBlankTrimmed(LinesRead)
    /\ (DownloadCompleted /\ ~ReadingRaised /\ process.status # "none") =>
         Delivered = NonBlankTrimmed(process.emitted)

\* A download completed without an exception after the subprocess emitted a
\* blank line and a line that needed trimming.
C3_Witness ==
  /\ DownloadCompleted /\ ~ReadingRaised
  /\ process.emitted = << << " ", "\n" >>, << " ", "b", " ", "\n" >> >>
  /\ Delivered = << << "b" >> >>

\* ---- C4 ----
\* Once the completion callback of a download has run, every line of that
\* download has been delivered (none is queued, no thread is left to post
\* one) and the subprocess, if one was started, has exited.
C4_CompletionAfterLinesAndExit ==
  DownloadCompleted =>
    /\ QueuedLines = << >>
    /\ threads = {}
    /\ process.status # "running"

\* ---- C5 ----
\* As claimed: after a reported fetch failure the catalog and the list are
\* what they were just before the fetch was requested.
C5_CatalogAsBeforeFetch ==
  FetchFailedReported => (formats = request.formats /\ format_listbox = request.listbox)

\* As amended: after a reported fetch failure the catalog and the list are
\* empty, as fetch_formats left them when the fetch was requested.
C5_CatalogEmptyAfterFailure ==
  FetchFailedReported => (formats = << >> /\ format_listbox = << >>)

\* A fetch failed and was reported, and the catalog before it was not empty.
C5_Witness ==
  /\ FetchFailedReported
  /\ request.formats # << >>

\* ---- C6 ----
\* The listbox shows exactly the descriptions of self.formats, in order; the
\* selected row is a row of the catalog, so formats[selected_idx] never
\* fails; after a successful fetch the catalog is that of one document.
C6_ListMatchesCatalog ==
  /\ Len(format_listbox) = Len(formats)
  /\ \A i \in DOMAIN formats : format_listbox[i] = formats[i].description
  /\ curselection # << >> => curselection[1] \in DOMAIN formats
  /\ Shown("IndexError") = {}
  /\ (request.kind = "fetch" /\ LastRan("_update_formats_ui")) =>
       \E video_info \in VideoInfos : formats = BuildCatalog(FormatsOf(video_info))

\* A second successful fetch has replaced a catalog that was not empty by a
\* different one, and the user has selected a row of it.
C6_Witness ==
  /\ request.kind = "fetch" /\ LastRan("_update_formats_ui")
  /\ request.formats # << >>
  /\ formats # << >> /\ formats # request.formats
  /\ curselection # << >>

\* ---- C7 ----
\* A step that changes self.formats or the listbox is a step of the UI
\* context (no worker thread and no subprocess moves in it), and it replaces
\* the catalog as a whole: by the empty one, or by the one the callback at
\* the head of the queue carries.
C7_CatalogWrittenOnUiOnly ==
  [][ (formats' # formats \/ format_listbox' # format_listbox) =>
        /\ threads \subseteq threads'
        /\ process' = process \/ process' = NoProcess
        /\ \/ formats' = << >>
           \/ /\ Runs("_update_formats_ui")
              /\ formats' = Head(after_queue).par.formats ]_vars

\* The callback _update_formats_ui has written a catalog that is not empty.
C7_Witness ==
  /\ LastRan("_update_formats_ui")
  /\ formats # << >>

\* ---- C8 ----
\* Under fair scheduling every failure of a fetch or a download leads to a
\* state where the progress fill is 0, is_downloading is false, no worker is
\* in flight and the fetch button is enabled.
Failing ==
  \E t \in threads :
    \/ t.pc \in {"reset", "except"}
    \/ t.pc = "wait" /\ process.status = "exited" /\ process.returncode # 0

BusyReset ==
  /\ progress_fill = 0
  /\ ~is_downloading
  /\ WorkersInFlight = 0
  /\ fetch_btn

C8_FailureLeadsToReset == Failing ~> BusyReset

\* A failure has been reported and the busy indication is reset.
C8_Witness ==
  /\ BusyReset
  /\ Shown("showerror") # {}
  /\ LastRan("_reset_ui") \/ LastRan("_download_complete")

\* ---- C9 ----
\* From its start to after its completion a download leaves the catalog and
\* the list as they were when it started; once its completion callback has
\* run, both buttons are enabled and is_downloading is false.
C9_DownloadReturnsToReady ==
  request.kind = "download" =>
    /\ formats = request.formats
    /\ format_listbox = request.listbox
    /\ DownloadCompleted => (fetch_btn /\ download_btn /\ ~is_downloading)

\* A download whose subprocess exited non-zero has completed.
C9_Witness ==
  /\ DownloadCompleted
  /\ process.status = "exited" /\ process.returncode = 1
  /\ formats # << >>

\* ---- C10 ----
\* The error kind a message box of the fetch thread stands for, by the except
\* clause that shows it, and the kind the claim gives each cause.
KindShown(text) ==
  CASE text[1] = "Failed to fetch video info:" -> "ExternalToolFailure"
    [] text[1] = "yt-dlp not found. Install it with: pip install yt-dlp" -> "ToolNotInstalled"
    [] OTHER -> "Unknown"

CauseOf(text) == IF Len(text) = 2 THEN text[2] ELSE "not_found"

KindClaimed(cause) ==
  CASE cause = "nonzero_exit" -> "ExternalToolFailure"
    [] cause = "not_found" -> "ToolNotInstalled"
    [] cause \in {"invalid_json", "bad_structure"} -> "MalformedResponse"
    [] OTHER -> "Unknown"

\* The outcome notifications of the latest fetch: run, queued, or still to
\* be posted by a thread that has not finished subprocess.run.
OutcomeFns == {"_update_formats_ui", "showerror"}

FetchOutcomes ==
  Cardinality({ t \in threads : t.pc = "run" })
    + Cardinality(Indices(after_queue, OutcomeFns))
    + Cardinality(Indices(outcomes, OutcomeFns))

Tids(ts) == { t.tid : t \in ts }

EmptyUrlBox == [fn |-> "showerror", text |-> << "Please enter a YouTube URL" >>, tid |-> 0]

Blank(s) == \A i \in DOMAIN s : s[i] \in Whitespace

C11_EmptyUrlRejected ==
  [][ /\ dialogs' = Append(dialogs, EmptyUrlBox) =>
           /\ Blank(url_entry)
           /\ UNCHANGED << uiVars, after_queue, threads, process, request, outcomes >>
      /\ \A t \in threads' :
           (t.kind = "fetch" /\ t.tid \notin Tids(threads)) =>
             (~Blank(url_entry) /\ ~Blank(t.url)) ]_vars

\* The box is open over a catalog that is not empty, with both buttons
\* enabled and no worker started.
C11_Witness ==
  /\ dialogs = << EmptyUrlBox >>
  /\ Blank(url_entry)
  /\ formats # << >> /\ format_listbox # << >>
  /\ fetch_btn /\ download_btn
  /\ WorkersInFlight = 0

\* ---- C12 ----
\* A download posts one outcome report (a message box) and posts it before
\* its completion callback; once the completion callback has run, the
\* history of the download is that one report and then the callback.  The
\* report is the success box only when process.wait() returned with code 0;
\* it is the "Download failed" box exactly when wait() returned with another
\* code, and the "Download error" box when Popen or the reading raised
\* (the only way to no subprocess, to one still running, or to a failure
\* report beside an exit code 0).
ReportFns == {"showinfo", "showerror"}

DownloadError == << "Download error:" >>
DownloadFailed == << "Download failed. Check the status log." >>

NoneCodec(f) == f.vcodec = "none"
NotNoneCodec(f) == ~NoneCodec(f)

C13_NoneCodecContributesNothing ==
  catalog_out # << >> =>
    /\ catalog_out[1] = BuildCatalog(SelectSeq(raw_in, NotNoneCodec))
    /\ Len(catalog_out[1]) <= Len(SelectSeq(raw_in, NotNoneCodec))

\* A catalog that is not empty was built from a list holding a format of
\* vcodec "none" whose (resolution, has_audio) no other format of the list has.
C13_Witness ==
  /\ catalog_out # << >>
  /\ catalog_out[1] # << >>
  /\ \E k \in DOMAIN raw_in :
       /\ NoneCodec(raw_in[k])
       /\ \A j \in DOMAIN raw_in \ {k} :
            Key(FormatEntry(raw_in[j])) # Key(FormatEntry(raw_in[k]))

\* ---- C14 ----
\* As claimed: only raw formats that have a vcodec, and one that is not
\* "none", contribute: the catalog built from a list is the catalog built
\* from that list without the formats of no vcodec and of vcodec "none".
HasVideoCodec(f) == f.vcodec # Absent /\ f.vcodec # "none"

C14_AbsentCodecContributesNothing ==
  catalog_out # << >> =>
    /\ catalog_out[1] = BuildCatalog(SelectSeq(raw_in, HasVideoCodec))
    /\ Len(catalog_out[1]) <= Len(SelectSeq(raw_in, HasVideoCodec))

\* ---- C15 ----
\* As claimed: a trigger clicked while a worker is in flight is answered in
\* that step by an error box, and no thread is started.
C15_BusyErrorSurfaced ==
  [][ (WorkersInFlight >= 1 /\ dropped' # dropped) =>
        /\ Len(dialogs') = Len(dialogs) + 1
        /\ Tids(threads') \subseteq Tids(threads) ]_vars

\* As amended: while a worker is in flight no step starts a thread and no
\* step opens a box of the user's own asking (no "busy" error, nor any
\* other); a click on a trigger is then dropped by the button and leaves the
\* program as it is.
C15_ClickWhileBusyDropped ==
  [][ WorkersInFlight >= 1 =>
        /\ Tids(threads') \subseteq Tids(threads)
        /\ \A i \in DOMAIN dialogs' \ DOMAIN dialogs : dialogs'[i].tid # 0
        /\ dropped' # dropped =>
             UNCHANGED << uiVars, after_queue, dialogs, threads, process, request,
                          outcomes >> ]_vars

\* While the first worker, a fetch thread, is running, a click on the fetch
\* button has been dropped: one thread, no box.
C15_Witness ==
  /\ dropped = "fetch_btn"
  /\ request.tid = 1
  /\ Cardinality(threads) = 1
  /\ dialogs = << >> /\ outcomes = << >>

\* ---- C16 ----
\* The size an entry of the catalog shows is that of the raw format it was
\* made from: its filesize when that is there and not 0, else its
\* filesize_approx when that is there and not 0, else "Unknown"; a size is
\* shown in MB to the nearest tenth.  filesize 0 with filesize_approx
\* 10485760 shows 10.0MB; neither field shows "Unknown".
\* The i-th smallest of a set of indices.
Nth(indices, i) ==
  CHOOSE k \in indices : Cardinality({ m \in indices : m < k }) = i - 1

SizeClaimed(f) ==
  IF f.filesize # << >> /\ f.filesize[1] # 0 THEN f.filesize[1]
  ELSE IF f.filesize_approx # << >> /\ f.filesize_approx[1] # 0 THEN f.filesize_approx[1]
  ELSE 0

Dist(a, b) == IF a >= b THEN a - b ELSE b - a

C16_SizeFromExactThenApprox ==
  catalog_out # << >> =>
    LET firsts == FirstIndices(raw_in) IN
    \A i \in DOMAIN catalog_out[1] :
      LET f == raw_in[Nth(firsts, i)]
          shown == catalog_out[1][i].description.size_str
          tenths == shown.whole * 10 + shown.tenth
      IN  /\ shown.known <=> SizeClaimed(f) # 0
          /\ shown.known =>
               /\ shown.tenth \in 0..9
               /\ 2 * Dist(SizeClaimed(f) * 10, tenths * BytesPerMB) <= BytesPerMB
          /\ (f.filesize = << 0 >> /\ f.filesize_approx = << 10485760 >>) =>
               shown = [known |-> TRUE, whole |-> 10, tenth |-> 0]
          /\ (f.filesize = << >> /\ f.filesize_approx = << >>) => ~shown.known

\* A catalog of two entries: the first made from a format of filesize 0 and
\* filesize_approx 10485760 and showing 10.0MB, the second made from a
\* format with neither field and showing "Unknown".
C16_Witness ==
  /\ catalog_out # << >>
  /\ Len(raw_in) = 2 /\ Len(catalog_out[1]) = 2
  /\ raw_in[1].filesize = << 0 >> /\ raw_in[1].filesize_approx = << 10485760 >>
  /\ raw_in[2].filesize = << >> /\ raw_in[2].filesize_approx = << >>
  /\ catalog_out[1][1].description.size_str = [known |-> TRUE, whole |-> 10, tenth |-> 0]
  /\ ~catalog_out[1][2].description.size_str.known

\* ---- C17 ----
\* The subprocess of a download is started with the command
\* yt-dlp -f <id>+bestaudio/best -P <download_path> --newline <url>, where
\* <id> is the id of the catalog entry selected when the download was asked
\* for and <url> the URL the thread was given.
Ids(catalog) == { catalog[i].id : i \in DOMAIN catalog }

C17_DownloadCommand ==
  process.status # "none" =>
    /\ request.kind = "download" /\ process.tid = request.tid
    /\ request.format_id \in Ids(request.formats)
    /\ Len(process.cmd) = 7
    /\ process.cmd[1] = << "yt-dlp" >>
    /\ process.cmd[2] = << "-f" >>
    /\ process.cmd[3] = << request.format_id, "+bestaudio/best" >>
    /\ process.cmd[4] = << "-P" >>
    /\ process.cmd[5] = download_path
    /\ process.cmd[6] = << "--newline" >>
    /\ process.cmd[7] = request.url

\* A subprocess runs for the second entry of a catalog of two, id 18, and
\* a URL that was typed with a leading blank.
C17_Witness ==
  /\ process.status = "running"
  /\ Len(formats) = 2 /\ formats[2].id = "18"
  /\ process.cmd[3] = << "18", "+bestaudio/best" >>
  /\ process.cmd[7] = << "v" >>

C19_DownloadUrlIsFetchUrl ==
  request.kind = "download" =>
    /\ request.url # << >>
    /\ request.url = request.fetch_url

====
